---- MODULE Spec2Model ----
(***************************************************************************)
(* Model of Teledyne_Final_W_Integrator.py: the serial driver helpers, the *)
(* configuration block, the integration measurement loop with its polling  *)
(* watchdog, and the cleanup block.                                        *)
(*                                                                         *)
(* Time is counted in tenths of a second (the finest delay of the script   *)
(* is time.sleep(0.1)).  `now` is the reading of time.time() relative to   *)
(* the write of the start command; it is tracked while the polling loop    *)
(* runs, the only place that reads the clock.  Text is a tuple of          *)
(* one-character strings, so that strip/upper/split/`in` are computed.     *)
(*                                                                         *)
(* t3pm1006_avgAC.py, the averaging script, is modelled on the same state  *)
(* (pc values "avg_..."): its configuration block, its CSV header and its  *)
(* query loop, which call ser.write and ser.readline themselves.           *)
(*                                                                         *)
(* Spec is the integration script, SpecScripts either script, SpecScenario *)
(* the integration script against the instrument of the documented         *)
(* scenario, SpecHelpers the helper functions applied to inputs of their   *)
(* own, SpecPolling the integration script that keeps running (weak        *)
(* fairness of the polling steps), SpecChannel one cycle on a serial line  *)
(* whose receive buffer is followed.  Decoded numbers are kept in          *)
(* millionths.                                                             *)
(***************************************************************************)
EXTENDS Integers, Sequences, FiniteSets, TLC

\* ------------------------------------------------------------------ bounds
MaxCycles == 2      \* iterations of the outer `while True` that are explored
MaxHist == 3        \* state-query reads of a cycle whose results are recorded
MaxFields == 5      \* fields of the numeric responses the decode blocks are given
MaxWords == 2       \* words of the state responses the classification is given
MaxQueries == 4     \* queries written while the receive buffer is followed
MaxSessions == 2    \* runs of the averaging script on one output file
MaxInterval == 10   \* average power is derived for intervals of 0..MaxInterval s
MaxSeconds == 130   \* seconds_to_hms is applied to 0..MaxSeconds and to the
                    \* values around each unit and around the clamp

\* ------------------------------------------------------- program constants
integration_interval_seconds == 10
SerTimeout == 20          \* serial.Serial(..., timeout=2)
WriteSettle == 1          \* time.sleep(0.1) in safe_serial_write
StartSettle == 1          \* time.sleep(0.1) after start
RunSleep == 4             \* time.sleep(0.4) on RUN
UnexpectedSleep == 5      \* time.sleep(0.5) on an unexpected state
RetrySleep == 10          \* time.sleep(1.0) after a failed state-query write
NumItems == 4             \* len(values) >= 4
MaxHours == 9999          \* min(h, 9999)

\* integration_interval_seconds * 1.5 + 5, in tenths of a second
software_timeout_seconds == integration_interval_seconds * 15 + 50

\* ------------------------------------------------------------ text helpers
None == <<"None">>        \* Python's None: no text is a tuple holding this

LowerAlpha == <<"a","b","c","d","e","f","g","h","i","j","k","l","m",
                "n","o","p","q","r","s","t","u","v","w","x","y","z">>
UpperAlpha == <<"A","B","C","D","E","F","G","H","I","J","K","L","M",
                "N","O","P","Q","R","S","T","U","V","W","X","Y","Z">>

UpperChar(c) ==
    IF \E i \in 1..26 : LowerAlpha[i] = c
    THEN UpperAlpha[CHOOSE i \in 1..26 : LowerAlpha[i] = c]
    ELSE c

\* Variant: the text is compared as received.
Upper_AsReceived(s) == s

\* str.upper()
Upper(s) == [i \in 1..Len(s) |-> UpperChar(s[i])]

IsSpace(c) == c \in {" ", "\n", "\r", "\t"}

\* str.strip()
Strip(s) ==
    IF \A i \in 1..Len(s) : IsSpace(s[i])
    THEN <<>>
    ELSE LET a == CHOOSE i \in 1..Len(s) :
                    ~IsSpace(s[i]) /\ \A j \in 1..(i-1) : IsSpace(s[j])
             b == CHOOSE i \in 1..Len(s) :
                    ~IsSpace(s[i]) /\ \A j \in (i+1)..Len(s) : IsSpace(s[j])
         IN SubSeq(s, a, b)

\* needle in hay
Contains(needle, hay) ==
    \E i \in 1..(Len(hay) - Len(needle) + 1) :
        SubSeq(hay, i, i + Len(needle) - 1) = needle

\* str.split(","): the fields between the commas, at least one field
RECURSIVE Split(_)
Split(s) ==
    IF \A i \in 1..Len(s) : s[i] # ","
    THEN <<s>>
    ELSE LET k == CHOOSE i \in 1..Len(s) :
                    s[i] = "," /\ \A j \in 1..(i-1) : s[j] # ","
         IN <<SubSeq(s, 1, k-1)>> \o Split(SubSeq(s, k+1, Len(s)))

Digits == {"0","1","2","3","4","5","6","7","8","9"}

\* float(field) does not raise ValueError.  Decided for the texts the modelled
\* instrument sends: an optional sign, digits, at most one decimal point.
IsFloat(f) ==
    LET body == IF Len(f) > 0 /\ f[1] \in {"+", "-"} THEN Tail(f) ELSE f
    IN /\ \E i \in 1..Len(body) : body[i] \in Digits
       /\ \A i \in 1..Len(body) : body[i] \in Digits \cup {"."}
       /\ Cardinality({i \in 1..Len(body) : body[i] = "."}) <= 1

\* ------------------------------------------------------------ seconds_to_hms
Min(a, b) == IF a < b THEN a ELSE b

\* Variant: the minutes taken from the whole number of seconds.
seconds_to_hms_NoModHour(seconds) ==
    LET h == seconds \div 3600
        m == seconds \div 60
        s == seconds % 60
    IN <<Min(h, MaxHours), m, s>>

seconds_to_hms(seconds) ==
    LET h == seconds \div 3600
        m == (seconds % 3600) \div 60
        s == seconds % 60
    IN <<Min(h, MaxHours), m, s>>

\* ------------------------------------------------------------ the channel
\* What ser.write() does: returns, or raises one of the exceptions that
\* safe_serial_write names.
WriteOutcomes == {"ok", "SerialTimeoutException", "SerialException", "Exception"}

\* Variant: the result of the write is not looked at.
safe_serial_write_unchecked(outcome) == TRUE

\* safe_serial_write: True iff the write returned; every exception is caught.
safe_serial_write(outcome) == outcome = "ok"

\* Variant: no settle delay after a write.
WriteTime_NoSettle(outcome) == 0

\* Time a call of safe_serial_write takes: the settle delay follows a good write.
WriteTime(outcome) == IF outcome = "ok" THEN WriteSettle ELSE 0

BadByte == "<ff>"         \* a byte that bytes.decode() rejects
ReadDelays == {0, 5}      \* time until a line that does arrive has arrived

\* What ser.readline() does: returns a line after a delay, returns b'' at
\* the port timeout, or raises.
ReadEvents(lines) ==
    [raised : {"none"}, bytes : lines, delay : ReadDelays]
    \cup {[raised |-> "none", bytes |-> <<>>, delay |-> SerTimeout],
          [raised |-> "none", bytes |-> <<BadByte, "\n">>, delay |-> 0],
          [raised |-> "SerialException", bytes |-> <<>>, delay |-> 0],
          [raised |-> "Exception", bytes |-> <<>>, delay |-> 0]}

\* safe_serial_read: the stripped text of the line, or None on a timeout,
\* a SerialException, a UnicodeDecodeError or any other exception.
safe_serial_read(ev) ==
    IF ev.raised # "none" THEN None
    ELSE IF ev.bytes = <<>> THEN None
    ELSE IF \E i \in 1..Len(ev.bytes) : ev.bytes[i] = BadByte THEN None
    ELSE Strip(ev.bytes)

\* Python truth of `response` / `idn_response`: neither None nor "".
Truthy(resp) == resp # None /\ resp # <<>>

\* -------------------------------------------------- lines the instrument sends
IdnLines == {<<"T","3","P","M","\n">>, <<"\n">>}
AnyStateLines == {<<"R","U","N","N","I","N","G","\n">>, <<"B","U","S","Y","\n">>, <<"T","I","M","E","U","P","\n">>, <<"T","I","M","\n">>, <<"S","T","O","P","\n">>, <<"R","E","S","E","T","\n">>, <<"O","V","E","R","F","L","O","W","\n">>}
AnyValueLines == {<<"1",",","2",",","3",",","4","\n">>,
               <<"1",",","2",",","3",",","4",",","5","\n">>,
               <<"1",",","2",",","3","\n">>,
               <<"1",",","x",",","3",",","4","\n">>,
               <<"1",",",",","3",",","4","\n">>,
               <<"\n">>}

\* The lines of the instrument of the documented scenario: it reports RUN
\* or TIM and answers the numeric query with "12.5,0.8,9.2,0.002778".
ScenarioStateLines == {<<"R","U","N","\n">>, <<"T","I","M","\n">>}
ScenarioValueLines == {<<"1","2",".","5",",","0",".","8",",","9",".","2",",",
                         "0",".","0","0","2","7","7","8","\n">>}

TIM == <<"T","I","M">>
TIMEUP == <<"T","I","M","E","U","P">>
RUN == <<"R","U","N">>
RUNNING == <<"R","U","N","N","I","N","G">>
STOP == <<"S","T","O","P">>
RESET == <<"R","E","S","E","T">>
OVERFLOW == <<"O","V","E","R","F","L","O","W">>

\* Variant: the chain without its STOP/RESET branch.
ClassifyState_NoStopBranch(state_response_upper) ==
    IF Contains(TIM, state_response_upper) \/ Contains(TIMEUP, state_response_upper)
    THEN "Complete"
    ELSE IF Contains(RUN, state_response_upper) \/ Contains(RUNNING, state_response_upper)
    THEN "Running"
    ELSE IF Contains(OVERFLOW, state_response_upper)
    THEN "Overflow"
    ELSE "Unrecognized"

\* Variant: the final else raises like the STOP/RESET branch.
ClassifyState_UnknownAborts(state_response_upper) ==
    IF Contains(TIM, state_response_upper) \/ Contains(TIMEUP, state_response_upper)
    THEN "Complete"
    ELSE IF Contains(RUN, state_response_upper) \/ Contains(RUNNING, state_response_upper)
    THEN "Running"
    ELSE IF Contains(OVERFLOW, state_response_upper)
    THEN "Overflow"
    ELSE "StoppedUnexpectedly"

\* The if/elif chain on state_response_upper.
ClassifyState(state_response_upper) ==
    IF Contains(TIM, state_response_upper) \/ Contains(TIMEUP, state_response_upper)
    THEN "Complete"
    ELSE IF Contains(RUN, state_response_upper) \/ Contains(RUNNING, state_response_upper)
    THEN "Running"
    ELSE IF Contains(STOP, state_response_upper) \/ Contains(RESET, state_response_upper)
    THEN "StoppedUnexpectedly"
    ELSE IF Contains(OVERFLOW, state_response_upper)
    THEN "Overflow"
    ELSE "Unrecognized"

\* ------------------------------------------------------ configuration steps
timer_cmd == <<":INTegrate:TIMer", seconds_to_hms(integration_interval_seconds)>>

\* The commands of the configuration block in program order, each with the
\* way its outcome is used: "idn" (write and response required), "set"
\* (write required), "query" (read-back only printed).
ConfigSteps ==
    << [cmd |-> <<"*IDN?", <<>>>>, kind |-> "idn"],
       [cmd |-> <<":INTegrate:MODE STANdard", <<>>>>, kind |-> "set"],
       [cmd |-> <<":INTegrate:FUNCtion WATT", <<>>>>, kind |-> "set"],
       [cmd |-> timer_cmd, kind |-> "set"],
       [cmd |-> <<":INTEGRATE:MODE?", <<>>>>, kind |-> "query"],
       [cmd |-> <<":INTEGRATE:FUNCTION?", <<>>>>, kind |-> "query"],
       [cmd |-> <<":INTEGRATE:TIMER?", <<>>>>, kind |-> "query"],
       [cmd |-> <<":NUMeric:NORMal:ITEM1 UPPeak", <<>>>>, kind |-> "set"],
       [cmd |-> <<":NUMeric:NORMal:ITEM2 I", <<>>>>, kind |-> "set"],
       [cmd |-> <<":NUMeric:NORMal:ITEM3 P", <<>>>>, kind |-> "set"],
       [cmd |-> <<":NUMeric:NORMal:ITEM4 WH", <<>>>>, kind |-> "set"],
       [cmd |-> <<":NUMeric:NORMal:NUMBer 4", <<>>>>, kind |-> "set"],
       [cmd |-> <<":NUMERIC:NORMAL:NUMBER?", <<>>>>, kind |-> "query"] >>

\* Variant: only the identification step is required.
StepRaises_OnlyIdn(kind, wrote, resp) ==
    kind = "idn" /\ (~wrote \/ ~Truthy(resp))

\* `if not safe_serial_write(...): raise Exception(...)` and the IDN check:
\* does this step raise out of the configuration block?
StepRaises(kind, wrote, resp) ==
    \/ kind = "set" /\ ~wrote
    \/ kind = "idn" /\ (~wrote \/ ~Truthy(resp))

\* ------------------------------------------------------------------- state
VARIABLES
    pc,                  \* position of the script
    ser,                 \* "None", "open" or "closed"
    cfgStep,             \* index of the next configuration step
    cfgLog,              \* commands whose write the configuration attempted
    cfgFault,            \* a required write failed or *IDN? got no answer
    csvfile,             \* rows of the output file: "header" / "row"
    csv_file_handle,     \* "None", "open" or "closed"
    loop_count,
    cycle_error,
    now,                 \* time.time() - integration_start_time, in 0.1 s
    polling_start_time,
    cyc,                 \* what the current cycle has done so far
    stateHist,           \* results of safe_serial_read in Polling, this cycle
    inFlight,            \* a start was written and its end was not yet seen
    interrupted,         \* KeyboardInterrupt was delivered
    stopWrite,           \* "none", or what the write of :INTegrate:STOP did
    closeAttempted,      \* ser.close() was called
    exitCode,            \* "running", "0", "1" or "KeyboardInterrupt"
    session,             \* number of the run of the script on this output file
    call,                \* a helper applied on its own: its name and arguments
    ret,                 \* what that application returned
    instrument,          \* "any", or "scenario" for the documented scenario
    channel              \* the serial line, where its receive buffer is followed

vars == <<pc, ser, cfgStep, cfgLog, cfgFault, csvfile, csv_file_handle,
          loop_count, cycle_error, now, polling_start_time, cyc, stateHist,
          inFlight, interrupted, stopWrite,
          closeAttempted, exitCode, session, call, ret, instrument, channel>>

\* The lines the instrument may send in answer to the state query and to
\* the numeric query.
StateLines == IF instrument = "scenario" THEN ScenarioStateLines ELSE AnyStateLines
ValueLines == IF instrument = "scenario" THEN ScenarioValueLines ELSE AnyValueLines

\* reset, start, fetch: "none" or what the write of that command did;
\* stateQ: a state query was attempted; ended: how Polling ended;
\* outcome: how the cycle ended; row: the row it wrote, less the timestamp.
\* late: more than software_timeout_seconds had passed when Polling ended.
NewCycle == [reset |-> "none", start |-> "none", stateQ |-> FALSE,
             fetch |-> "none", ended |-> "none", late |-> FALSE,
             outcome |-> "none", row |-> <<>>]

\* stateHist once a cycle has made more than MaxHist state reads.
TooMany == << <<"more than MaxHist reads">> >>

InitialFiles == {<<>>, <<"header", "row">>}

\* The serial line where the receive buffer is not followed: a read gets
\* any of the lines the instrument may send.
NoChannel == [sent |-> 0, transit |-> <<>>, rx |-> <<>>,
              read |-> [query |-> 0, reply |-> 0]]

NoCall == <<"no call">>
\* ret before the helper has returned, and once it has returned v.
NoValue == [done |-> FALSE, value |-> <<>>]
Returned(v) == [done |-> TRUE, value |-> v]

\* A run of a script on its own: no helper is applied outside it.
NoHelperCall == call = NoCall /\ ret = NoValue

\* What a script leaves alone while it runs.
idleVars == <<session, call, ret, instrument, channel>>

\* The script as it starts.
ScriptStart ==
    /\ pc = "connect"
    /\ ser = "None"
    /\ cfgStep = 1
    /\ cfgLog = <<>>
    /\ cfgFault = FALSE
    /\ csvfile \in InitialFiles
    /\ csv_file_handle = "None"
    /\ loop_count = 0
    /\ cycle_error = FALSE
    /\ now = 0
    /\ polling_start_time = 0
    /\ cyc = NewCycle
    /\ stateHist = <<>>
    /\ inFlight = FALSE
    /\ interrupted = FALSE
    /\ stopWrite = "none"
    /\ closeAttempted = FALSE
    /\ exitCode = "running"
    /\ channel = NoChannel
    /\ session = 1
    /\ NoHelperCall

Init == ScriptStart /\ instrument = "any"

loopVars == <<loop_count, cycle_error, now, polling_start_time, cyc, stateHist,
              inFlight>>
endVars == <<interrupted, stopWrite, closeAttempted, exitCode>>
csvVars == <<csvfile, csv_file_handle>>

\* ------------------------------------------------- connect and configure
\* ser = serial.Serial(port, baud_rate, timeout=2): opens, or raises
\* SerialException, which the handler at the end of the block turns into
\* sys.exit(1) with ser still None.
Connect ==
    /\ pc = "connect"
    /\ \E opened \in BOOLEAN :
         IF opened
         THEN /\ ser' = "open"
              /\ pc' = "cfg"
              /\ UNCHANGED exitCode
         ELSE /\ ser' = "None"
              /\ pc' = "exit"
              /\ exitCode' = "1"
    /\ UNCHANGED <<idleVars, cfgStep, cfgLog, cfgFault, csvVars, loopVars, interrupted,
                   stopWrite, closeAttempted>>

\* One command of the configuration block.  A raising step runs the
\* `except Exception` handler: close the port if open, sys.exit(1).
ConfigStep ==
    /\ pc = "cfg"
    /\ cfgStep <= Len(ConfigSteps)
    /\ \E w \in WriteOutcomes, ev \in ReadEvents(IdnLines) :
         LET step == ConfigSteps[cfgStep]
             wrote == safe_serial_write(w)
             resp == IF wrote /\ step.kind # "set" THEN safe_serial_read(ev) ELSE None
         IN /\ cfgLog' = Append(cfgLog, step.cmd)
            /\ cfgFault' = ((step.kind \in {"idn", "set"} /\ w # "ok")
                             \/ (step.kind = "idn" /\ ~Truthy(safe_serial_read(ev))))
            /\ IF StepRaises(step.kind, wrote, resp)
               THEN /\ ser' = "closed"
                    /\ closeAttempted' = TRUE
                    /\ pc' = "exit"
                    /\ exitCode' = "1"
                    /\ UNCHANGED cfgStep
               ELSE /\ cfgStep' = cfgStep + 1
                    /\ pc' = IF cfgStep = Len(ConfigSteps) THEN "csv_open" ELSE "cfg"
                    /\ UNCHANGED <<ser, closeAttempted, exitCode>>
    /\ UNCHANGED <<idleVars, csvVars, loopVars, interrupted, stopWrite>>

\* KeyboardInterrupt while the configuration block runs.  The block has
\* handlers for SerialException and Exception only, and no finally: the
\* interrupt leaves the script with the port as it is.
ConfigInterrupt ==
    /\ pc = "cfg"
    /\ interrupted' = TRUE
    /\ pc' = "exit"
    /\ exitCode' = "KeyboardInterrupt"
    /\ UNCHANGED <<idleVars, ser, cfgStep, cfgLog, cfgFault, csvVars, loopVars,
                   stopWrite, closeAttempted>>

\* ------------------------------------------------------- measurement loop
\* Variant: the header is written whatever the file holds.
file_is_empty_Always(rows) == TRUE

\* file_is_empty: the file does not exist or has size 0.
file_is_empty(rows) == rows = <<>>

\* Opening the CSV file and writing the header when the file is new or
\* empty.  open() or the header write may raise IOError, which the outer
\* `except Exception` catches before the cleanup block runs.
OpenCsv ==
    /\ pc = "csv_open"
    /\ \E res \in {"ok", "open_raises", "header_raises"} :
            CASE res = "ok" ->
                   /\ csv_file_handle' = "open"
                   /\ csvfile' = IF file_is_empty(csvfile)
                                 THEN Append(csvfile, "header") ELSE csvfile
                   /\ pc' = "loop"
              [] res = "open_raises" ->
                   /\ UNCHANGED csvVars
                   /\ pc' = "cleanup"
              [] res = "header_raises" ->
                   /\ file_is_empty(csvfile)
                   /\ csv_file_handle' = "open"
                   /\ UNCHANGED csvfile
                   /\ pc' = "cleanup"
    /\ UNCHANGED <<idleVars, ser, cfgStep, cfgLog, cfgFault, loopVars, endVars>>

\* Top of `while True`: loop_count += 1, integration_start_time, cycle_error.
CycleStart ==
    /\ pc = "loop"
    /\ loop_count < MaxCycles
    /\ loop_count' = loop_count + 1
    /\ cycle_error' = FALSE
    /\ now' = 0
    /\ polling_start_time' = 0
    /\ cyc' = NewCycle
    /\ stateHist' = <<>>
    /\ pc' = "reset"
    /\ UNCHANGED <<idleVars, ser, cfgStep, cfgLog, cfgFault, csvVars, inFlight, endVars>>

\* Variant: the handler does not mark the cycle.
ExceptException_NoFlag(c, kind) ==
    /\ cyc' = [c EXCEPT !.outcome = kind]
    /\ UNCHANGED cycle_error
    /\ pc' = "loop"

\* Variant: the handler goes back to the step that failed.
ExceptException_Retries(c, kind) ==
    /\ cyc' = [c EXCEPT !.outcome = kind]
    /\ cycle_error' = TRUE
    /\ pc' = pc

\* Variant: the handler breaks out of the outer loop.
ExceptException_Breaks(c, kind) ==
    /\ cyc' = [c EXCEPT !.outcome = kind]
    /\ cycle_error' = TRUE
    /\ pc' = "cleanup"

\* `except Exception` of the cycle: mark the cycle, sleep 1.0 s, and fall
\* through the accounting to the next iteration of the outer loop.
ExceptException(c, kind) ==
    /\ cyc' = [c EXCEPT !.outcome = kind]
    /\ cycle_error' = TRUE
    /\ pc' = "loop"

\* Variant: the handler lets the outer loop go on.
ExceptTimeoutError_Continues(c) ==
    /\ cyc' = [c EXCEPT !.outcome = "Timeout"]
    /\ cycle_error' = TRUE
    /\ pc' = "loop"

\* `except TimeoutError` of the cycle: mark the cycle and break out of the
\* outer loop, into the cleanup block.
ExceptTimeoutError(c) ==
    /\ cyc' = [c EXCEPT !.outcome = "Timeout"]
    /\ cycle_error' = TRUE
    /\ pc' = "cleanup"

\* Variant: the interval taken in tenths of a second twice over.
PollingTimedOut_WrongUnit(t) ==
    t - polling_start_time > software_timeout_seconds * 10

\* time.time() - polling_start_time > software_timeout_seconds
PollingTimedOut(t) == t - polling_start_time > software_timeout_seconds

\* The cycle record when the polling loop is left at time t.
PollingEnded(c, t, how) ==
    [c EXCEPT !.ended = how,
              !.late = t - polling_start_time > software_timeout_seconds]

\* The clock is read in the polling loop only: outside it, it is not tracked.
ClockOff ==
    /\ now' = 0
    /\ polling_start_time' = 0

\* 1. Reset Integrator
Reset ==
    /\ pc = "reset"
    /\ \E w \in WriteOutcomes :
         LET c == [cyc EXCEPT !.reset = w]
         IN IF safe_serial_write(w)
            THEN /\ cyc' = c
                 /\ pc' = "start"
                 /\ UNCHANGED cycle_error
            ELSE ExceptException(c, "ResetFailed")
    /\ UNCHANGED <<idleVars, ser, cfgStep, cfgLog, cfgFault, csvVars, loop_count, now,
                   polling_start_time, stateHist, inFlight, endVars>>

\* 2. Start Integrator, and polling_start_time = time.time().
Start ==
    /\ pc = "start"
    /\ \E w \in WriteOutcomes :
         LET c == [cyc EXCEPT !.start = w]
             t == now + WriteTime(w) + StartSettle
         IN /\ inFlight' = (inFlight \/ w = "ok")
            /\ IF safe_serial_write(w)
               THEN /\ cyc' = c
                    /\ now' = t
                    /\ polling_start_time' = t
                    /\ pc' = "poll"
                    /\ UNCHANGED cycle_error
               ELSE /\ ExceptException(c, "StartFailed")
                    /\ UNCHANGED <<now, polling_start_time>>
    /\ UNCHANGED <<idleVars, ser, cfgStep, cfgLog, cfgFault, csvVars, loop_count,
                   stateHist, endVars>>

\* 3. Top of the polling loop: the watchdog check, then the state query.  A
\* failed write sleeps 1.0 s, rechecks the watchdog and retries.
PollQuery ==
    /\ pc = "poll"
    /\ IF PollingTimedOut(now)
       THEN /\ ExceptTimeoutError(PollingEnded(cyc, now, "Watchdog"))
            /\ inFlight' = FALSE
            /\ ClockOff
       ELSE \E w \in WriteOutcomes :
              LET c == [cyc EXCEPT !.stateQ = TRUE]
                  t == now + WriteTime(w) + RetrySleep
              IN IF safe_serial_write(w)
                 THEN /\ cyc' = c
                      /\ now' = now + WriteTime(w)
                      /\ pc' = "poll_read"
                      /\ UNCHANGED <<cycle_error, inFlight, polling_start_time>>
                 ELSE IF PollingTimedOut(t)
                      THEN /\ ExceptTimeoutError(PollingEnded(c, t, "Watchdog"))
                           /\ inFlight' = FALSE
                           /\ ClockOff
                      ELSE /\ cyc' = c
                           /\ now' = t
                           /\ pc' = "poll"
                           /\ UNCHANGED <<cycle_error, inFlight, polling_start_time>>
    /\ UNCHANGED <<idleVars, ser, cfgStep, cfgLog, cfgFault, csvVars, loop_count,
                   stateHist, endVars>>

\* The response to the state query and the branch taken on it.
PollRead ==
    /\ pc = "poll_read"
    /\ \E ev \in ReadEvents(StateLines) :
         LET state_response == safe_serial_read(ev)
             t == now + ev.delay
         IN /\ stateHist' = IF stateHist # TooMany /\ Len(stateHist) < MaxHist
                            THEN Append(stateHist, state_response)
                            ELSE TooMany
            /\ IF state_response = None
               THEN IF PollingTimedOut(t)
                    THEN /\ ExceptTimeoutError(PollingEnded(cyc, t, "Watchdog"))
                         /\ inFlight' = FALSE
                         /\ ClockOff
                    ELSE /\ now' = t
                         /\ pc' = "poll"
                         /\ UNCHANGED <<cyc, cycle_error, inFlight, polling_start_time>>
               ELSE LET state == ClassifyState(Upper(state_response))
                    IN CASE state = "Complete" ->
                              /\ cyc' = PollingEnded(cyc, t, "Complete")
                              /\ pc' = "fetch_write"
                              /\ inFlight' = FALSE
                              /\ ClockOff
                              /\ UNCHANGED cycle_error
                         [] state = "Running" ->
                              /\ now' = t + RunSleep
                              /\ pc' = "poll"
                              /\ UNCHANGED <<cyc, cycle_error, inFlight, polling_start_time>>
                         [] state \in {"StoppedUnexpectedly", "Overflow"} ->
                              /\ ExceptException(PollingEnded(cyc, t, "DeviceState"),
                                                 "DeviceState")
                              /\ inFlight' = FALSE
                              /\ ClockOff
                         [] OTHER ->
                              /\ now' = t + UnexpectedSleep
                              /\ pc' = "poll"
                              /\ UNCHANGED <<cyc, cycle_error, inFlight, polling_start_time>>
    /\ UNCHANGED <<idleVars, ser, cfgStep, cfgLog, cfgFault, csvVars, loop_count, endVars>>

\* 4. Query the Numeric Values
FetchWrite ==
    /\ pc = "fetch_write"
    /\ \E w \in WriteOutcomes :
         LET c == [cyc EXCEPT !.fetch = w]
         IN IF safe_serial_write(w)
            THEN /\ cyc' = c
                 /\ pc' = "fetch_read"
                 /\ UNCHANGED cycle_error
            ELSE ExceptException(c, "FetchWriteFailed")
    /\ UNCHANGED <<idleVars, ser, cfgStep, cfgLog, cfgFault, csvVars, loop_count, now,
                   polling_start_time, stateHist, inFlight, endVars>>

\* ---------------------------------------------------------- decode block
DigitChars == <<"0","1","2","3","4","5","6","7","8","9">>
DigitVal(c) == (CHOOSE i \in 1..10 : DigitChars[i] = c) - 1

\* The number a string of digits writes; 0 for no digits.
RECURSIVE ToNat(_)
ToNat(ds) ==
    IF ds = <<>> THEN 0
    ELSE ToNat(SubSeq(ds, 1, Len(ds) - 1)) * 10 + DigitVal(ds[Len(ds)])

\* Numbers are kept in millionths: 1.0 is Micro.
Micro == 1000000

\* float(f) for a text IsFloat accepts, in millionths (the texts the modelled
\* instrument sends have at most six decimals; further ones are dropped).
float(f) ==
    LET body == IF Len(f) > 0 /\ f[1] \in {"+", "-"} THEN Tail(f) ELSE f
        dot == IF \E i \in 1..Len(body) : body[i] = "."
               THEN CHOOSE i \in 1..Len(body) : body[i] = "."
               ELSE Len(body) + 1
        whole == SubSeq(body, 1, dot - 1)
        decimals == SubSeq(body, dot + 1, Len(body))
        six == [i \in 1..6 |-> IF i <= Len(decimals) THEN decimals[i] ELSE "0"]
        mag == ToNat(whole) * Micro + ToNat(six)
    IN IF Len(f) > 0 /\ f[1] = "-" THEN 0 - mag ELSE mag

\* Variant: a response of exactly four values counts as too short.
DecodeResponse_StrictlyMore(response) ==
    IF ~Truthy(response) THEN "NoResponse"
    ELSE LET values == Split(response)
         IN IF Len(values) > NumItems
            THEN IF \A i \in 1..NumItems : values[i] = <<>> \/ IsFloat(values[i])
                 THEN "Success"
                 ELSE "ParseError"
            ELSE "ShortResponse"

\* `if response:` / split / len(values) >= 4 / float(): what the decode
\* block makes of the response, before the row is written.
DecodeResponse(response) ==
    IF ~Truthy(response) THEN "NoResponse"
    ELSE LET values == Split(response)
         IN IF Len(values) >= NumItems
            THEN IF \A i \in 1..NumItems : values[i] = <<>> \/ IsFloat(values[i])
                 THEN "Success"
                 ELSE "ParseError"
            ELSE "ShortResponse"

\* peak_voltage, current, instant_power, watt_hours of a response that
\* decodes: float(values[i]) if values[i] else 0.0
DecodeValues(response) ==
    LET values == Split(response)
    IN [i \in 1..NumItems |-> IF values[i] = <<>> THEN 0 ELSE float(values[i])]

\* Variant: the interval is taken in seconds, not in hours.
average_power_PerSecond(watt_hours, interval_seconds) ==
    IF interval_seconds * 10000000 > 36
    THEN watt_hours \div interval_seconds
    ELSE 0

\* interval_hours = interval_seconds / 3600.0; the division is made only
\* when interval_hours > 1e-9, that is interval_seconds * 10^7 > 36.  The
\* quotient watt_hours * 3600 / interval_seconds is taken in two parts, which
\* keeps the intermediate product small.
average_power(watt_hours, interval_seconds) ==
    IF interval_seconds * 10000000 > 36
    THEN (watt_hours \div interval_seconds) * 3600
           + ((watt_hours % interval_seconds) * 3600) \div interval_seconds
    ELSE 0

\* f"{x:.4f}": x rounded to four decimals, in ten-thousandths (x >= 0, and
\* no x of the model lies halfway between two of them).
Format4(x) == (x + 50) \div 100

\* The row csv_writer.writerow gets, after the timestamp: average power,
\* watt hours, peak voltage, current, instantaneous power, as printed
\* (.4f, .6f, .4f, .4f, .4f).
CsvRow(response, interval_seconds) ==
    LET v == DecodeValues(response)
    IN <<Format4(average_power(v[4], interval_seconds)), v[4],
         Format4(v[1]), Format4(v[2]), Format4(v[3])>>

NoRow == <<>>

\* What the decode block prints when it writes no row, and the response
\* text it shows in it.
DecodePrinted(response) ==
    CASE DecodeResponse(response) = "NoResponse" ->
           [text |-> "Warning: No measurement response received after integration.",
            shown |-> None]
      [] DecodeResponse(response) = "ShortResponse" ->
           [text |-> "Warning: Received unexpected number of values",
            shown |-> response]
      [] DecodeResponse(response) = "ParseError" ->
           [text |-> "Error parsing measurement response",
            shown |-> response]
      [] OTHER ->
           [text |-> "Interval Avg P", shown |-> None]

\* The decode block of the integration script as a whole.
DecodeBlock(response) ==
    [outcome |-> DecodeResponse(response),
     values |-> IF DecodeResponse(response) = "Success"
                THEN DecodeValues(response) ELSE NoRow,
     row |-> IF DecodeResponse(response) = "Success"
             THEN CsvRow(response, integration_interval_seconds) ELSE NoRow,
     printed |-> DecodePrinted(response)]

\* ----------------------------------- decode block of the averaging script
AvgNumItems == 3          \* len(values) >= 3

\* `if response:` / split / len(values) >= 3 / float(values[i]): a field
\* float() rejects, the empty field included, raises ValueError.
AvgDecodeResponse(response) ==
    IF ~Truthy(response) THEN "NoResponse"
    ELSE LET values == Split(response)
         IN IF Len(values) >= AvgNumItems
            THEN IF \A i \in 1..AvgNumItems : IsFloat(values[i])
                 THEN "Success"
                 ELSE "ParseError"
            ELSE "ShortResponse"

\* peak_voltage, current, power of a response that decodes.
AvgDecodeValues(response) ==
    LET values == Split(response)
    IN [i \in 1..AvgNumItems |-> float(values[i])]

AvgDecodePrinted(response) ==
    CASE AvgDecodeResponse(response) = "NoResponse" ->
           [text |-> "Warning: No measurement response received from instrument in this cycle.",
            shown |-> None]
      [] AvgDecodeResponse(response) = "ShortResponse" ->
           [text |-> "Warning: Received unexpected number of values",
            shown |-> response]
      [] AvgDecodeResponse(response) = "ParseError" ->
           [text |-> "Error parsing response", shown |-> response]
      [] OTHER ->
           [text |-> "Avg V+pk", shown |-> None]

\* The decode block of the averaging script as a whole: the row is the
\* three floats themselves.
AvgDecodeBlock(response) ==
    [outcome |-> AvgDecodeResponse(response),
     values |-> IF AvgDecodeResponse(response) = "Success"
                THEN AvgDecodeValues(response) ELSE NoRow,
     row |-> IF AvgDecodeResponse(response) = "Success"
             THEN AvgDecodeValues(response) ELSE NoRow,
     printed |-> AvgDecodePrinted(response)]

\* The response to the numeric query, its decoding and the CSV row.  Every
\* exception of the decode block (ValueError, IndexError, an IOError of
\* writerow/flush) is caught inside it and only sets cycle_error.
FetchRead ==
    /\ pc = "fetch_read"
    /\ \E ev \in ReadEvents(ValueLines), csv_raises \in BOOLEAN :
         LET response == safe_serial_read(ev)
             decoded == DecodeResponse(response)
             outcome == IF decoded = "Success" /\ csv_raises THEN "CsvError"
                        ELSE decoded
         IN /\ cyc' = [cyc EXCEPT !.outcome = outcome,
                                  !.row = IF outcome = "Success"
                                          THEN CsvRow(response, integration_interval_seconds)
                                          ELSE NoRow]
            /\ cycle_error' = (outcome # "Success")
            /\ csvfile' = IF outcome = "Success" THEN Append(csvfile, "row")
                          ELSE csvfile
            /\ pc' = "loop"
    /\ UNCHANGED <<idleVars, ser, cfgStep, cfgLog, cfgFault, csv_file_handle, loop_count,
                   now, polling_start_time, stateHist, inFlight, endVars>>

\* KeyboardInterrupt inside the measurement try block: neither
\* safe_serial_write/read nor the cycle's handlers catch it (it is no
\* Exception); `except KeyboardInterrupt` leads into the cleanup block.
LoopPcs == {"csv_open", "loop", "reset", "start", "poll", "poll_read",
            "fetch_write", "fetch_read"}

\* Variant: the handlers of the cycle catch the interrupt as they catch an
\* Exception, and the outer loop goes on.
ExceptKeyboardInterrupt_CycleCatches(at) ==
    IF at \in {"reset", "start", "poll", "poll_read", "fetch_write", "fetch_read"}
    THEN "loop" ELSE "cleanup"

\* Where a KeyboardInterrupt raised at `at` leads: past safe_serial_write,
\* safe_serial_read and the handlers of the cycle, to the outer
\* `except KeyboardInterrupt` and on into the cleanup block.
ExceptKeyboardInterrupt(at) == "cleanup"

Interrupt ==
    /\ pc \in LoopPcs
    /\ interrupted' = TRUE
    /\ pc' = ExceptKeyboardInterrupt(pc)
    /\ ClockOff
    /\ UNCHANGED <<idleVars, ser, cfgStep, cfgLog, cfgFault, csvVars, loop_count,
                   cycle_error, cyc, stateHist, inFlight, stopWrite,
                   closeAttempted, exitCode>>

\* ------------------------------------------------------------------ cleanup
\* Variant: no inner finally, so an interrupt of the stop write skips close.
AfterStopWrite_NoFinally(w) == IF w = "KeyboardInterrupt" THEN "exit" ELSE "close"

\* Where the try/except/finally around the stop command leads once the
\* write did w: the inner finally runs ser.close() in every case.
AfterStopWrite(w) == "close"

\* finally: close the CSV file; if the port is open, try the stop command.
\* safe_serial_write returns False on any Exception; a KeyboardInterrupt
\* passes through it and through `except Exception`, into the inner finally.
Cleanup ==
    /\ pc = "cleanup"
    /\ csv_file_handle' = IF csv_file_handle = "open" THEN "closed"
                          ELSE csv_file_handle
    /\ IF ser = "open"
       THEN \E w \in WriteOutcomes \cup {"KeyboardInterrupt"} :
              /\ stopWrite' = w
              /\ exitCode' = IF w = "KeyboardInterrupt" THEN w ELSE exitCode
              /\ interrupted' = (interrupted \/ w = "KeyboardInterrupt")
              /\ pc' = AfterStopWrite(w)
       ELSE /\ exitCode' = "0"
            /\ pc' = "exit"
            /\ UNCHANGED <<stopWrite, interrupted>>
    /\ UNCHANGED <<idleVars, ser, cfgStep, cfgLog, cfgFault, csvfile, loopVars,
                   closeAttempted>>

\* The inner finally: ser.close(), then sys.exit(0) unless an interrupt is
\* propagating.
CloseSerial ==
    /\ pc = "close"
    /\ ser' = "closed"
    /\ closeAttempted' = TRUE
    /\ exitCode' = IF exitCode = "running" THEN "0" ELSE exitCode
    /\ pc' = "exit"
    /\ UNCHANGED <<idleVars, cfgStep, cfgLog, cfgFault, csvVars, loopVars, interrupted,
                   stopWrite>>

Next ==
    \/ Connect
    \/ ConfigStep
    \/ ConfigInterrupt
    \/ OpenCsv
    \/ CycleStart
    \/ Reset
    \/ Start
    \/ PollQuery
    \/ PollRead
    \/ FetchWrite
    \/ FetchRead
    \/ Interrupt
    \/ Cleanup
    \/ CloseSerial

Spec == Init /\ [][Next]_vars

\* The polling loop on its own.  The script as it enters the loop in its
\* first cycle: configured, the file open with its header, reset and start
\* written, polling_start_time just taken.
PollingEntry ==
    /\ pc = "poll"
    /\ ser = "open"
    /\ cfgStep = Len(ConfigSteps) + 1
    /\ cfgLog = [i \in 1..Len(ConfigSteps) |-> ConfigSteps[i].cmd]
    /\ cfgFault = FALSE
    /\ csvfile \in {<<"header">>, <<"header", "row">>}
    /\ csv_file_handle = "open"
    /\ loop_count = 1
    /\ cycle_error = FALSE
    /\ now = WriteSettle + StartSettle
    /\ polling_start_time = WriteSettle + StartSettle
    /\ cyc = [NewCycle EXCEPT !.reset = "ok", !.start = "ok"]
    /\ stateHist = <<>>
    /\ inFlight = TRUE
    /\ interrupted = FALSE
    /\ stopWrite = "none"
    /\ closeAttempted = FALSE
    /\ exitCode = "running"
    /\ session = 1
    /\ NoHelperCall
    /\ instrument = "any"
    /\ channel = NoChannel

PollingNext ==
    \/ PollQuery
    \/ PollRead
    \/ Interrupt

\* The script keeps running: an iteration of the polling loop that has
\* begun is carried out, the query and then the read.
SpecPolling ==
    PollingEntry /\ [][PollingNext]_vars /\ WF_vars(PollQuery) /\ WF_vars(PollRead)

\* ------------------------------------------------- the averaging script
\* t3pm1006_avgAC.py.  It has no safe_serial_write/safe_serial_read: it
\* calls ser.write and ser.readline().decode().strip() itself.

\* ser.readline().decode().strip(): the text, or the exception raised.
readline_decode_strip(ev) ==
    IF ev.raised # "none" THEN [raised |-> ev.raised, text |-> <<>>]
    ELSE IF \E i \in 1..Len(ev.bytes) : ev.bytes[i] = BadByte
    THEN [raised |-> "UnicodeDecodeError", text |-> <<>>]
    ELSE [raised |-> "none", text |-> Strip(ev.bytes)]

\* Lines the instrument sends in answer to :NUMERIC:NORMAL:NUMBER?
NumberLines == {<<"3","\n">>, <<"4","\n">>}

\* number_response_val: -1, or int() of the response when it is a number.
number_response_val(number_response_raw) ==
    IF number_response_raw # <<>>
       /\ \A i \in 1..Len(number_response_raw) : number_response_raw[i] \in Digits
    THEN ToNat(number_response_raw)
    ELSE 0 - 1

\* The commands of the configuration block in program order: "idn" and
\* "query" write and read a line, "set" writes, "number" is the block that
\* queries the number of items and sets it to 3 when it is not 3.
AvgConfigSteps ==
    << [cmd |-> "*IDN?", kind |-> "idn"],
       [cmd |-> ":NUMeric:NORMal:ITEM1 UPPeak", kind |-> "set"],
       [cmd |-> ":NUMeric:NORMal:ITEM2 I", kind |-> "set"],
       [cmd |-> ":NUMeric:NORMal:ITEM3 P", kind |-> "set"],
       [cmd |-> ":NUMERIC:NORMAL:ITEM1?", kind |-> "query"],
       [cmd |-> ":NUMERIC:NORMAL:ITEM2?", kind |-> "query"],
       [cmd |-> ":NUMERIC:NORMAL:ITEM3?", kind |-> "query"],
       [cmd |-> ":NUMERIC:NORMAL:NUMBER?", kind |-> "number"],
       [cmd |-> ":MEASure:AVERaging:COUNt 16", kind |-> "set"],
       [cmd |-> ":MEASURE:AVERAGING:COUNT?", kind |-> "query"] >>

\* What one step does, given what its writes and reads do: the commands
\* whose write it attempts, and whether an exception leaves the block.
AvgStepResult(step, w, ev, w2, w3, ev3) ==
    LET r == readline_decode_strip(ev)
        r3 == readline_decode_strip(ev3)
        first == <<step.cmd>>
    IN IF w # "ok" THEN [raised |-> TRUE, log |-> first]
       ELSE IF step.kind = "set" THEN [raised |-> FALSE, log |-> first]
       ELSE IF r.raised # "none" THEN [raised |-> TRUE, log |-> first]
       ELSE IF step.kind # "number" \/ number_response_val(r.text) = 3
       THEN [raised |-> FALSE, log |-> first]
       ELSE IF w2 # "ok"
       THEN [raised |-> TRUE, log |-> first \o <<":NUMeric:NORMal:NUMBer 3">>]
       ELSE [raised |-> w3 # "ok" \/ r3.raised # "none",
             log |-> first \o <<":NUMeric:NORMal:NUMBer 3", step.cmd>>]

\* What the averaging script leaves alone.
avgIdleVars == <<cycle_error, now, polling_start_time, stateHist, inFlight,
                 stopWrite, call, ret, instrument, channel>>

\* The averaging script as it starts.
AvgScriptStart ==
    /\ pc = "avg_connect"
    /\ ser = "None"
    /\ cfgStep = 1
    /\ cfgLog = <<>>
    /\ cfgFault = FALSE
    /\ csv_file_handle = "None"
    /\ loop_count = 0
    /\ cycle_error = FALSE
    /\ now = 0
    /\ polling_start_time = 0
    /\ cyc = NewCycle
    /\ stateHist = <<>>
    /\ inFlight = FALSE
    /\ interrupted = FALSE
    /\ stopWrite = "none"
    /\ closeAttempted = FALSE
    /\ exitCode = "running"
    /\ channel = NoChannel

AvgInit ==
    /\ AvgScriptStart
    /\ csvfile \in InitialFiles
    /\ session = 1
    /\ NoHelperCall
    /\ instrument = "any"

\* ser = serial.Serial(port, baud_rate, timeout=1): opens, or raises
\* SerialException; the handler finds ser None and calls exit().
AvgConnect ==
    /\ pc = "avg_connect"
    /\ \E opened \in BOOLEAN :
         IF opened
         THEN /\ ser' = "open"
              /\ pc' = "avg_cfg"
              /\ UNCHANGED <<cfgFault, exitCode>>
         ELSE /\ ser' = "None"
              /\ cfgFault' = TRUE
              /\ pc' = "avg_exit"
              /\ exitCode' = "0"
    /\ UNCHANGED <<avgIdleVars, cfgStep, cfgLog, csvVars, loop_count, cyc,
                   interrupted, closeAttempted, session>>

\* One step of the configuration block.  An exception of ser.write, of
\* ser.readline or of decode() reaches the handlers at the end of the block
\* (cfgFault): close the port, exit().
AvgConfigStep ==
    /\ pc = "avg_cfg"
    /\ cfgStep <= Len(AvgConfigSteps)
    /\ \E w, w2, w3 \in WriteOutcomes,
          ev \in ReadEvents(IF AvgConfigSteps[cfgStep].kind = "number"
                            THEN NumberLines ELSE IdnLines),
          ev3 \in ReadEvents(NumberLines) :
         LET res == AvgStepResult(AvgConfigSteps[cfgStep], w, ev, w2, w3, ev3)
         IN /\ cfgLog' = cfgLog \o res.log
            /\ cfgFault' = res.raised
            /\ IF res.raised
               THEN /\ ser' = "closed"
                    /\ closeAttempted' = TRUE
                    /\ pc' = "avg_exit"
                    /\ exitCode' = "0"
                    /\ UNCHANGED cfgStep
               ELSE /\ cfgStep' = cfgStep + 1
                    /\ pc' = IF cfgStep = Len(AvgConfigSteps)
                             THEN "avg_csv_open" ELSE "avg_cfg"
                    /\ UNCHANGED <<ser, closeAttempted, exitCode>>
    /\ UNCHANGED <<avgIdleVars, csvVars, loop_count, cyc, interrupted, session>>

\* KeyboardInterrupt while the configuration block runs: no handler, no
\* finally; the script ends with the port as it is.
AvgConfigInterrupt ==
    /\ pc = "avg_cfg"
    /\ interrupted' = TRUE
    /\ pc' = "avg_exit"
    /\ exitCode' = "KeyboardInterrupt"
    /\ UNCHANGED <<avgIdleVars, ser, cfgStep, cfgLog, cfgFault, csvVars,
                   loop_count, cyc, closeAttempted, session>>

\* with open(output_csv_file, "a") and the header, written when the file is
\* empty.  An IOError of open() or of the header write is caught by the
\* outer `except IOError`; leaving the with block closes the file.
AvgOpenCsv ==
    /\ pc = "avg_csv_open"
    /\ \E res \in {"ok", "open_raises", "header_raises"} :
            CASE res = "ok" ->
                   /\ csv_file_handle' = "open"
                   /\ csvfile' = IF file_is_empty(csvfile)
                                 THEN Append(csvfile, "header") ELSE csvfile
                   /\ pc' = "avg_loop"
              [] res = "open_raises" ->
                   /\ UNCHANGED csvVars
                   /\ pc' = "avg_finally"
              [] res = "header_raises" ->
                   /\ file_is_empty(csvfile)
                   /\ csv_file_handle' = "closed"
                   /\ UNCHANGED csvfile
                   /\ pc' = "avg_finally"
    /\ UNCHANGED <<avgIdleVars, ser, cfgStep, cfgLog, cfgFault, loop_count, cyc,
                   endVars, session>>

\* One iteration of `while True`: the query, the response, its decoding and
\* the row.  cyc.fetch is what ser.write did; cyc.outcome is what the decode
\* block made of the response, or the exception of ser.write, ser.readline
\* or decode() that one of the handlers of the loop caught, each of which
\* breaks out of the loop.
AvgQuery ==
    /\ pc = "avg_loop"
    /\ loop_count < MaxCycles
    /\ loop_count' = loop_count + 1
    /\ \E w \in WriteOutcomes, ev \in ReadEvents(ValueLines), csv_raises \in BOOLEAN :
         LET r == readline_decode_strip(ev)
             d == AvgDecodeBlock(r.text)
             outcome == IF d.outcome = "Success" /\ csv_raises THEN "CsvError"
                        ELSE d.outcome
         IN IF w # "ok" \/ r.raised # "none"
            THEN /\ cyc' = [NewCycle EXCEPT !.fetch = w,
                                           !.outcome = IF w # "ok" THEN w ELSE r.raised]
                 /\ csv_file_handle' = "closed"
                 /\ UNCHANGED csvfile
                 /\ pc' = "avg_finally"
            ELSE /\ cyc' = [NewCycle EXCEPT !.fetch = w, !.outcome = outcome,
                                           !.row = IF outcome = "Success"
                                                   THEN d.row ELSE NoRow]
                 /\ csvfile' = IF outcome = "Success" THEN Append(csvfile, "row")
                               ELSE csvfile
                 /\ UNCHANGED csv_file_handle
                 /\ pc' = "avg_loop"
    /\ UNCHANGED <<avgIdleVars, ser, cfgStep, cfgLog, cfgFault, endVars, session>>

\* KeyboardInterrupt inside the outer try: `except KeyboardInterrupt`, after
\* the with block has closed the file.
AvgInterrupt ==
    /\ pc \in {"avg_csv_open", "avg_loop"}
    /\ interrupted' = TRUE
    /\ csv_file_handle' = IF csv_file_handle = "open" THEN "closed"
                          ELSE csv_file_handle
    /\ pc' = "avg_finally"
    /\ UNCHANGED <<avgIdleVars, ser, cfgStep, cfgLog, cfgFault, csvfile,
                   loop_count, cyc, closeAttempted, exitCode, session>>

\* finally: close the port if it is open; the script ends.
AvgFinally ==
    /\ pc = "avg_finally"
    /\ ser' = IF ser = "open" THEN "closed" ELSE ser
    /\ closeAttempted' = (closeAttempted \/ ser = "open")
    /\ exitCode' = "0"
    /\ pc' = "avg_exit"
    /\ UNCHANGED <<avgIdleVars, cfgStep, cfgLog, cfgFault, csvVars, loop_count,
                   cyc, interrupted, session>>

\* The script is run again on the file the earlier runs left.
AvgNewSession ==
    /\ pc = "avg_exit"
    /\ session < MaxSessions
    /\ session' = session + 1
    /\ pc' = "avg_connect"
    /\ ser' = "None"
    /\ cfgStep' = 1
    /\ cfgLog' = <<>>
    /\ cfgFault' = FALSE
    /\ csv_file_handle' = "None"
    /\ loop_count' = 0
    /\ cyc' = NewCycle
    /\ interrupted' = FALSE
    /\ closeAttempted' = FALSE
    /\ exitCode' = "running"
    /\ UNCHANGED <<avgIdleVars, csvfile>>

AvgNext ==
    \/ AvgConnect
    \/ AvgConfigStep
    \/ AvgConfigInterrupt
    \/ AvgOpenCsv
    \/ AvgQuery
    \/ AvgInterrupt
    \/ AvgFinally
    \/ AvgNewSession

\* Either script, run on its own output file.
SpecScripts == (Init \/ AvgInit) /\ [][Next \/ AvgNext]_vars

\* -------------------------------------------- the line and its receive buffer
\* One cycle from the polling loop on, with the serial line followed: the
\* instrument answers every query once and in order, an answer is in
\* transit until it arrives in the receive buffer, and ser.readline()
\* returns the first line of the buffer, or nothing at the port timeout when
\* the buffer is empty.  channel.sent counts the queries written; each answer
\* carries the number of the query it answers; channel.read pairs the last
\* line consumed with the query it was read for.

\* The answers of the instrument to a state query and to the numeric query.
ChannelStateLines == {<<"R","U","N","N","I","N","G","\n">>, <<"T","I","M","\n">>}
ChannelValueLine == <<"1",",","2",",","3",",","4","\n">>

\* ser_conn.write(command) returned: the query is on its way and the
\* instrument's answer `bytes` to it is in transit.
Written(ch, bytes) ==
    [ch EXCEPT !.sent = ch.sent + 1,
               !.transit = Append(ch.transit, [to |-> ch.sent + 1, bytes |-> bytes])]

\* What ser_conn.readline() does on this line.
Readline(ch) ==
    IF ch.rx = <<>>
    THEN [raised |-> "none", bytes |-> <<>>, delay |-> SerTimeout]
    ELSE [raised |-> "none", bytes |-> Head(ch.rx).bytes, delay |-> 0]

\* The line after that call of readline.
AfterReadline(ch) ==
    IF ch.rx = <<>> THEN ch
    ELSE [ch EXCEPT !.rx = Tail(ch.rx),
                    !.read = [query |-> ch.sent, reply |-> Head(ch.rx).to]]

\* What the scripts' other state is while the line is followed.
channelIdleVars == <<ser, cfgStep, cfgLog, cfgFault, csvfile, csv_file_handle,
                     loop_count, now, polling_start_time, stateHist, inFlight,
                     interrupted, stopWrite, closeAttempted, exitCode, session,
                     call, ret, instrument>>

\* The integrator was started and the polling loop is entered.
ChannelInit ==
    /\ pc = "chan_poll"
    /\ ser = "open"
    /\ cfgStep = Len(ConfigSteps) + 1
    /\ cfgLog = <<>>
    /\ cfgFault = FALSE
    /\ csvfile = <<"header">>
    /\ csv_file_handle = "open"
    /\ loop_count = 1
    /\ cycle_error = FALSE
    /\ now = 0
    /\ polling_start_time = 0
    /\ cyc = [NewCycle EXCEPT !.reset = "ok", !.start = "ok"]
    /\ stateHist = <<>>
    /\ inFlight = TRUE
    /\ interrupted = FALSE
    /\ stopWrite = "none"
    /\ closeAttempted = FALSE
    /\ exitCode = "running"
    /\ session = 1
    /\ NoHelperCall
    /\ instrument = "any"
    /\ channel = NoChannel

\* An answer in transit arrives in the receive buffer.
ChannelArrive ==
    /\ pc \in {"chan_poll", "chan_poll_read", "chan_fetch_write", "chan_fetch_read"}
    /\ channel.transit # <<>>
    /\ channel' = [channel EXCEPT !.transit = Tail(channel.transit),
                                  !.rx = Append(channel.rx, Head(channel.transit))]
    /\ UNCHANGED <<channelIdleVars, pc, cyc, cycle_error>>

\* Top of the polling loop: the watchdog, then the state query; a failed
\* write is retried.
ChannelPollQuery ==
    /\ pc = "chan_poll"
    /\ \E timed_out \in BOOLEAN, w \in WriteOutcomes, bytes \in ChannelStateLines :
         IF timed_out \/ channel.sent >= MaxQueries
         THEN /\ cyc' = [cyc EXCEPT !.ended = "Watchdog", !.outcome = "Timeout"]
              /\ cycle_error' = TRUE
              /\ pc' = "chan_done"
              /\ UNCHANGED channel
         ELSE /\ cyc' = [cyc EXCEPT !.stateQ = TRUE]
              /\ UNCHANGED cycle_error
              /\ IF safe_serial_write(w)
                 THEN /\ channel' = Written(channel, bytes)
                      /\ pc' = "chan_poll_read"
                 ELSE /\ UNCHANGED channel
                      /\ pc' = "chan_poll"
    /\ UNCHANGED channelIdleVars

\* state_response = safe_serial_read(ser) and the branch taken on it.
ChannelPollRead ==
    /\ pc = "chan_poll_read"
    /\ LET state_response == safe_serial_read(Readline(channel))
       IN /\ channel' = AfterReadline(channel)
          /\ IF state_response = None
             THEN /\ pc' = "chan_poll"
                  /\ UNCHANGED <<cyc, cycle_error>>
             ELSE LET state == ClassifyState(Upper(state_response))
                  IN CASE state = "Complete" ->
                            /\ cyc' = [cyc EXCEPT !.ended = "Complete"]
                            /\ pc' = "chan_fetch_write"
                            /\ UNCHANGED cycle_error
                       [] state \in {"StoppedUnexpectedly", "Overflow"} ->
                            /\ cyc' = [cyc EXCEPT !.ended = "DeviceState",
                                                  !.outcome = "DeviceState"]
                            /\ cycle_error' = TRUE
                            /\ pc' = "chan_done"
                       [] OTHER ->
                            /\ pc' = "chan_poll"
                            /\ UNCHANGED <<cyc, cycle_error>>
    /\ UNCHANGED channelIdleVars

\* 4. Query the Numeric Values
ChannelFetchWrite ==
    /\ pc = "chan_fetch_write"
    /\ \E w \in WriteOutcomes :
         IF safe_serial_write(w)
         THEN /\ cyc' = [cyc EXCEPT !.fetch = w]
              /\ channel' = Written(channel, ChannelValueLine)
              /\ pc' = "chan_fetch_read"
              /\ UNCHANGED cycle_error
         ELSE /\ cyc' = [cyc EXCEPT !.fetch = w, !.outcome = "FetchWriteFailed"]
              /\ cycle_error' = TRUE
              /\ pc' = "chan_done"
              /\ UNCHANGED channel
    /\ UNCHANGED channelIdleVars

\* response = safe_serial_read(ser) and its decoding.
ChannelFetchRead ==
    /\ pc = "chan_fetch_read"
    /\ LET response == safe_serial_read(Readline(channel))
       IN /\ channel' = AfterReadline(channel)
          /\ cyc' = [cyc EXCEPT !.outcome = DecodeResponse(response)]
          /\ cycle_error' = (DecodeResponse(response) # "Success")
          /\ pc' = "chan_done"
    /\ UNCHANGED channelIdleVars

ChannelNext ==
    \/ ChannelArrive
    \/ ChannelPollQuery
    \/ ChannelPollRead
    \/ ChannelFetchWrite
    \/ ChannelFetchRead

SpecChannel == ChannelInit /\ [][ChannelNext]_vars

\* ------------------------------------------ the helpers applied on their own
\* The state of a script, which an application of a helper leaves alone.
scriptVars == <<pc, ser, cfgStep, cfgLog, cfgFault, csvfile, csv_file_handle,
                loop_count, cycle_error, now, polling_start_time, cyc,
                stateHist, inFlight, interrupted, stopWrite, closeAttempted,
                exitCode, session, instrument, channel>>

\* No script runs.
NoScript ==
    /\ pc = "helper"
    /\ ser = "None"
    /\ cfgStep = 1
    /\ cfgLog = <<>>
    /\ cfgFault = FALSE
    /\ csvfile = <<>>
    /\ csv_file_handle = "None"
    /\ loop_count = 0
    /\ cycle_error = FALSE
    /\ now = 0
    /\ polling_start_time = 0
    /\ cyc = NewCycle
    /\ stateHist = <<>>
    /\ inFlight = FALSE
    /\ interrupted = FALSE
    /\ stopWrite = "none"
    /\ closeAttempted = FALSE
    /\ exitCode = "running"
    /\ channel = NoChannel
    /\ session = 1
    /\ instrument = "any"

\* The largest number of seconds h,m,s can encode: 9999 h 59 m 59 s.
MaxEncodable == MaxHours * 3600 + 59 * 60 + 59

SecondsInputs ==
    (0..MaxSeconds)
    \cup {3599, 3600, 3601, 3661, 7199, 7200, 86399, 86400, 90061}
    \cup {MaxEncodable - 3600, MaxEncodable - 1, MaxEncodable,
          MaxEncodable + 1, MaxEncodable + 3600}

\* Field texts of a numeric response: two numbers, the empty field, and a
\* text float() rejects.
FieldTexts == {<<"1">>, <<"2", ".", "5">>, <<>>, <<"x">>}

FieldLists == UNION {[1..k -> FieldTexts] : k \in 1..MaxFields}

\* ",".join(fields): the response line that carries these fields.
RECURSIVE JoinFields(_)
JoinFields(fields) ==
    IF Len(fields) = 1 THEN fields[1]
    ELSE fields[1] \o <<",">> \o JoinFields(Tail(fields))

\* Words of a state response, in lower case: the tokens of the state chain,
\* the two longer forms the script names, and a word with no token.
StateWords == {<<"t","i","m">>, <<"t","i","m","e","u","p">>, <<"r","u","n">>,
               <<"r","u","n","n","i","n","g">>, <<"s","t","o","p">>,
               <<"r","e","s","e","t">>, <<"o","v","e","r","f","l","o","w">>,
               <<"b","u","s","y">>}

WordLists == UNION {[1..k -> StateWords] : k \in 1..MaxWords}

\* The ways a text is cased: as it is, all capitals, a leading capital,
\* every other letter a capital.
Casings == {"lower", "upper", "title", "mixed"}

Cased(text, casing) ==
    [i \in 1..Len(text) |->
        IF \/ casing = "upper"
           \/ casing = "title" /\ i = 1
           \/ casing = "mixed" /\ i % 2 = 1
        THEN UpperChar(text[i]) ELSE text[i]]

\* Accumulated energies, in millionths of a watt hour.
EnergyInputs == {0, 2778, 250000}

HelperCalls ==
    [fn : {"seconds_to_hms"}, arg : SecondsInputs]
    \cup [fn : {"average_power"}, arg : EnergyInputs, interval : 0..MaxInterval]
    \cup [fn : {"safe_serial_read"},
          arg : ReadEvents(IdnLines \cup AnyStateLines \cup AnyValueLines)]
    \cup {[fn |-> "classify", arg |-> Cased(JoinFields(ws), c), words |-> ws,
           casing |-> c] : ws \in WordLists \cup {<< <<>> >>}, c \in Casings}
    \cup {[fn |-> f, arg |-> JoinFields(fs), fields |-> fs] :
            f \in {"decode", "avg_decode"}, fs \in FieldLists}

HelperInit ==
    /\ NoScript
    /\ call \in HelperCalls
    /\ ret = NoValue

\* h, m, s = seconds_to_hms(arg)
Call_seconds_to_hms ==
    /\ pc = "helper"
    /\ call.fn = "seconds_to_hms"
    /\ ~ret.done
    /\ ret' = Returned(seconds_to_hms(call.arg))
    /\ UNCHANGED <<scriptVars, call>>

\* The decode block of the integration script on `response`.
Call_DecodeBlock ==
    /\ pc = "helper"
    /\ call.fn = "decode"
    /\ ~ret.done
    /\ ret' = Returned(DecodeBlock(call.arg))
    /\ UNCHANGED <<scriptVars, call>>

\* The decode block of the averaging script on `response`.
Call_AvgDecodeBlock ==
    /\ pc = "helper"
    /\ call.fn = "avg_decode"
    /\ ~ret.done
    /\ ret' = Returned(AvgDecodeBlock(call.arg))
    /\ UNCHANGED <<scriptVars, call>>

\* state_response_upper = state_response.upper() and the if/elif chain.
Call_ClassifyState ==
    /\ pc = "helper"
    /\ call.fn = "classify"
    /\ ~ret.done
    /\ ret' = Returned(ClassifyState(Upper(call.arg)))
    /\ UNCHANGED <<scriptVars, call>>

\* interval_hours, the guard and the division, on their own.
Call_average_power ==
    /\ pc = "helper"
    /\ call.fn = "average_power"
    /\ ~ret.done
    /\ ret' = Returned(average_power(call.arg, call.interval))
    /\ UNCHANGED <<scriptVars, call>>

\* response = safe_serial_read(ser), for what ser.readline() does.
Call_safe_serial_read ==
    /\ pc = "helper"
    /\ call.fn = "safe_serial_read"
    /\ ~ret.done
    /\ ret' = Returned(safe_serial_read(call.arg))
    /\ UNCHANGED <<scriptVars, call>>

HelperNext ==
    \/ Call_seconds_to_hms
    \/ Call_safe_serial_read
    \/ Call_average_power
    \/ Call_ClassifyState
    \/ Call_DecodeBlock
    \/ Call_AvgDecodeBlock

SpecHelpers == HelperInit /\ [][HelperNext]_vars

\* ------------------------------------------------ the documented scenario
\* The integration script run against the instrument of the scenario, next
\* to the helpers applied on their own.
ScenarioInit == ScriptStart /\ instrument = "scenario"

SpecScenario == (ScenarioInit \/ HelperInit) /\ [][Next \/ HelperNext]_vars

\* ------------------------------------------------------------------ claims
InterruptStep == interrupted' /\ ~interrupted
PollingPcs == {"poll", "poll_read"}
EndPcs == {"cleanup", "close", "exit"}
Configured == cfgStep > Len(ConfigSteps)

\* A read result that ends the polling loop.
Terminal(resp) ==
    /\ resp # None
    /\ ClassifyState(Upper(resp)) \in {"Complete", "StoppedUnexpectedly", "Overflow"}

\* C1: the start command is written only after the reset of the same cycle
\* was written successfully and while no earlier start is in flight; outside
\* the polling loop a cycle is in flight only after a user interrupt.
C1_StartAfterReset ==
    /\ [][(cyc'.start = "ok" /\ (cyc.start # "ok" \/ pc = "start"))
            => (/\ cyc.reset = "ok"
                /\ cyc'.reset = "ok"
                /\ loop_count' = loop_count
                /\ ~inFlight)]_vars
    /\ [](inFlight => (pc \in PollingPcs \/ interrupted))

C1_Witness == loop_count = 2 /\ cyc.start = "ok" /\ pc = "poll" /\ inFlight

\* C2: the polling loop reads up to and including the first response
\* classified Complete, StoppedUnexpectedly or Overflow and never past it:
\* after RUNNING, RUNNING, TIMEUP it has stopped with 3 reads and the next
\* command is the numeric query; after a first response STOP the cycle is
\* aborted with 1 read, and no state query or numeric query follows.
C2_ReadsUpToFirstTerminal ==
    /\ [](stateHist # TooMany =>
            \A i \in 1..Len(stateHist) :
                Terminal(stateHist[i]) =>
                    /\ i = Len(stateHist)
                    /\ pc \notin PollingPcs
                    /\ cyc.ended \in {"Complete", "DeviceState"})
    /\ [](cyc.ended \in {"Complete", "DeviceState"} =>
            /\ pc \notin PollingPcs
            /\ stateHist # <<>>
            /\ (stateHist # TooMany => Terminal(stateHist[Len(stateHist)])))
    /\ [][cyc.ended \in {"Complete", "DeviceState"} /\ loop_count' = loop_count
            => stateHist' = stateHist]_vars
    /\ [](stateHist = <<RUNNING, RUNNING, TIMEUP>> =>
            /\ cyc.ended = "Complete"
            /\ pc \in {"fetch_write", "fetch_read", "loop"} \cup EndPcs)
    /\ [][pc = "fetch_write" /\ ~InterruptStep => cyc'.fetch # "none"]_vars
    /\ [](Len(stateHist) >= 1 /\ stateHist[1] = STOP =>
            /\ stateHist = <<STOP>>
            /\ cyc.ended = "DeviceState"
            /\ cyc.fetch = "none"
            /\ pc \in {"loop"} \cup EndPcs)

C2_Witness ==
    /\ stateHist = <<RUNNING, RUNNING, TIMEUP>>
    /\ pc = "fetch_read"
    /\ cyc.fetch = "ok"

C4_LateMeansTimeout == cyc.late => cyc.ended = "Watchdog"

\* C4 (amended): the watchdog is evaluated at the top of every poll iteration
\* and after a failed write or an absent response; a check that finds more
\* than software_timeout_seconds elapsed gives Timeout whatever was read
\* before, a Timeout is given only then, and a response read in an iteration
\* begun before expiry is still acted on, so Polling outlasts the timeout by
\* at most one iteration.
C4_WatchdogAtChecks ==
    /\ [][(pc = "poll" /\ now - polling_start_time > software_timeout_seconds
              /\ ~InterruptStep)
            => (cyc'.outcome = "Timeout" /\ cyc'.ended = "Watchdog")]_vars
    /\ [](cyc.ended = "Watchdog" <=> cyc.outcome = "Timeout")
    /\ [](cyc.outcome = "Timeout" => cyc.late)
    /\ [](pc = "poll_read" =>
            now - polling_start_time <= software_timeout_seconds + WriteSettle)
    /\ [](pc = "poll" =>
            now - polling_start_time
                <= software_timeout_seconds + WriteSettle + SerTimeout + UnexpectedSleep)

C4_Witness ==
    /\ cyc.outcome = "Timeout"
    /\ cyc.late
    /\ stateHist = TooMany

\* C5: when the write of the start command fails, the cycle is marked failed
\* and Polling is not entered: no state query and no numeric query is
\* written in that cycle.
C5_StartFailureSkipsPolling ==
    (cyc.start \notin {"none", "ok"}) =>
        /\ cyc.outcome = "StartFailed"
        /\ cycle_error
        /\ ~cyc.stateQ
        /\ stateHist = <<>>
        /\ cyc.fetch = "none"
        /\ cyc.ended = "none"
        /\ pc \in {"loop"} \cup EndPcs

C5_Witness == cyc.start = "SerialTimeoutException" /\ pc = "loop" /\ cycle_error

PerCycleFailures == {"DeviceState", "ShortResponse", "ParseError", "NoResponse"}

\* C6: a device-state failure or a short, malformed or missing numeric
\* response fails the current cycle only: control is back at the top of the
\* outer loop with the port open, and the next step begins a new cycle,
\* which starts with reset.
C6_PerCycleFailureContinues ==
    /\ [](cyc.outcome \in PerCycleFailures =>
            /\ cycle_error
            /\ ((pc = "loop" /\ ser = "open" /\ stopWrite = "none")
                  \/ (interrupted /\ pc \in EndPcs)))
    /\ [][(cyc.outcome \in PerCycleFailures /\ pc = "loop" /\ ~InterruptStep)
            => (/\ pc' = "reset"
                /\ loop_count' = loop_count + 1
                /\ cyc' = NewCycle)]_vars
    /\ [][pc = "reset" /\ ~InterruptStep => cyc'.reset # "none"]_vars

C6_Witness ==
    /\ cyc.outcome = "DeviceState"
    /\ pc = "loop"
    /\ loop_count < MaxCycles
    /\ stateHist = <<RUNNING, OVERFLOW>>

\* C7: once ser.write raised SerialException for the reset, start or numeric
\* query of a cycle, no further cycle is started.
C7_SerialFaultIsFatal ==
    [][("SerialException" \in {cyc.reset, cyc.start, cyc.fetch})
         => loop_count' = loop_count]_vars

\* C8: whenever the script has ended after the port was opened, ser.close()
\* was called.
C8_CloseOnEveryExit == (pc = "exit" /\ ser # "None") => closeAttempted

\* C9: when the measurement part is left with the port open, the write of
\* the stop command is attempted in a step before ser.close(), and the close
\* follows whatever that write did, a failure or an interrupt included.
C9_StopBeforeClose ==
    /\ [][(Configured /\ closeAttempted' /\ ~closeAttempted)
            => (stopWrite # "none" /\ ser = "open" /\ ser' = "closed")]_vars
    /\ [][(pc = "cleanup" /\ ser = "open")
            => (stopWrite' # "none" /\ ser' = "open" /\ pc' = "close")]_vars
    /\ [][pc = "close" => (ser' = "closed" /\ closeAttempted')]_vars
    /\ [](Configured /\ pc = "exit" =>
            stopWrite # "none" /\ closeAttempted /\ ser = "closed")

C9_Witness ==
    /\ pc = "exit"
    /\ stopWrite = "KeyboardInterrupt"
    /\ closeAttempted
    /\ ser = "closed"

\* The order of the identification and set commands, and the read-back
\* queries between them.
SetOrder == <<"*IDN?", ":INTegrate:MODE STANdard", ":INTegrate:FUNCtion WATT",
              ":INTegrate:TIMer", ":NUMeric:NORMal:ITEM1 UPPeak",
              ":NUMeric:NORMal:ITEM2 I", ":NUMeric:NORMal:ITEM3 P",
              ":NUMeric:NORMal:ITEM4 WH", ":NUMeric:NORMal:NUMBer 4">>
ReadBackQueries == {":INTEGRATE:MODE?", ":INTEGRATE:FUNCTION?",
                    ":INTEGRATE:TIMER?", ":NUMERIC:NORMAL:NUMBER?"}
IsRequired(cmd) == cmd[1] \notin ReadBackQueries

\* C10: the identification and set commands go out in the fixed order; the
\* first of them whose write fails (or a missing IDN response) ends the
\* configuration: no later command is written and no cycle begins.
C10_ConfigFailsFast ==
    /\ [](LET sets == SelectSeq(cfgLog, IsRequired)
          IN /\ Len(sets) <= Len(SetOrder)
             /\ \A i \in 1..Len(sets) : sets[i][1] = SetOrder[i])
    /\ [](cfgFault =>
            /\ pc = "exit"
            /\ exitCode = "1"
            /\ loop_count = 0
            /\ cyc = NewCycle
            /\ csv_file_handle = "None")
    /\ [][cfgFault => cfgLog' = cfgLog]_vars
    /\ [](Configured => Len(cfgLog) = Len(ConfigSteps) /\ ~cfgFault)

C10_Witness ==
    /\ cfgFault
    /\ Len(cfgLog) = 8
    /\ pc = "exit"

\* A read result in which the completion token occurs.
ObservedComplete(resp) == resp # None /\ Contains(TIM, Upper(resp))

\* C11: the numeric query is written at most once per cycle, only after a
\* state response with the completion token ended Polling, and with no reset
\* or start written between that response and the query; when its write
\* fails or its read returns nothing the cycle is failed and control is back
\* in the outer loop, so the query is not written again in that cycle.
C11_FetchOnceAfterComplete ==
    /\ [](cyc.fetch # "none" =>
            /\ cyc.ended = "Complete"
            /\ cyc.reset = "ok" /\ cyc.start = "ok"
            /\ stateHist # <<>>
            /\ (stateHist # TooMany => ObservedComplete(stateHist[Len(stateHist)])))
    /\ [][(cyc.ended = "Complete" /\ loop_count' = loop_count) =>
            /\ cyc'.reset = cyc.reset
            /\ cyc'.start = cyc.start
            /\ (cyc.fetch # "none" => cyc'.fetch = cyc.fetch /\ pc' # "fetch_write")]_vars
    /\ [](cyc.fetch \notin {"none", "ok"} =>
            /\ cyc.outcome = "FetchWriteFailed"
            /\ cycle_error
            /\ pc \in {"loop"} \cup EndPcs)
    /\ [](cyc.outcome = "NoResponse" =>
            /\ cyc.fetch = "ok"
            /\ cycle_error
            /\ pc \in {"loop"} \cup EndPcs)

C11_Witness ==
    /\ cyc.outcome = "NoResponse"
    /\ cyc.fetch = "ok"
    /\ stateHist = <<TIM>>
    /\ pc = "loop"
    /\ loop_count = 1

\* A read result the state chain has no branch for.
NoKnownToken(resp) ==
    /\ resp # None
    /\ \A tok \in {TIM, RUN, STOP, RESET, OVERFLOW} : ~Contains(tok, Upper(resp))

\* C12: in Polling a failed write of the state query, an absent response and
\* a response with no known token do not end the cycle: the script stays in
\* Polling, and the next command it writes is the state query, unless the
\* watchdog check that follows finds the timeout exceeded.  Polling is left
\* only by a terminal response, the watchdog or a user interrupt.
C12_PollingRetries ==
    /\ [][(pc = "poll_read" /\ stateHist' # TooMany /\ ~InterruptStep
             /\ (stateHist'[Len(stateHist')] = None
                   \/ NoKnownToken(stateHist'[Len(stateHist')])))
            => \/ (pc' = "poll" /\ cyc' = cyc /\ cycle_error' = cycle_error)
               \/ (cyc'.outcome = "Timeout" /\ cyc'.late)]_vars
    /\ [][(pc = "poll" /\ ~InterruptStep)
            => \/ (cyc'.stateQ /\ pc' \in PollingPcs /\ cyc'.ended = "none"
                     /\ cycle_error' = cycle_error)
               \/ (cyc'.outcome = "Timeout" /\ cyc'.late)]_vars
    /\ [][(pc \in PollingPcs /\ pc' \notin PollingPcs /\ ~InterruptStep)
            => \/ cyc'.ended = "Watchdog"
               \/ (cyc'.ended \in {"Complete", "DeviceState"}
                     /\ (stateHist' # TooMany =>
                           Terminal(stateHist'[Len(stateHist')])))]_vars
    /\ [](pc \in PollingPcs => cyc.ended = "none" /\ cyc.outcome = "none")

C12_Witness ==
    /\ stateHist = << <<"B","U","S","Y">>, None, <<"B","U","S","Y">> >>
    /\ pc = "poll_read"
    /\ ~cycle_error

\* The number a field text writes, in millionths.
FieldValue(f) ==
    CASE f = <<"1">> -> 1000000
      [] f = <<"2", ".", "5">> -> 2500000
      [] f = <<>> -> 0

NumericTexts == {<<"1">>, <<"2", ".", "5">>}
ItemCount == [decode |-> 4, avg_decode |-> 3]

\* C13: a response whose first N fields are numbers (N = 4 in the
\* integration script, 3 in the averaging script) decodes to the values of
\* exactly those N fields, whatever follows them; a response of fewer than N
\* fields gives no row, and the message printed for it shows the response
\* text as received.
C13_DecodeFirstN ==
    (call.fn \in {"decode", "avg_decode"} /\ ret.done) =>
        LET n == ItemCount[call.fn]
            fs == call.fields
            got == ret.value
        IN /\ (Len(fs) >= n /\ \A i \in 1..n : fs[i] \in NumericTexts) =>
                /\ got.outcome = "Success"
                /\ got.values = [i \in 1..n |-> FieldValue(fs[i])]
                /\ got.row # NoRow
           /\ (Len(fs) < n /\ call.arg # <<>>) =>
                /\ got.outcome = "ShortResponse"
                /\ got.values = NoRow
                /\ got.row = NoRow
                /\ got.printed.shown = call.arg

C13_Witness ==
    /\ call.fn = "decode"
    /\ call.fields = << <<"1">>, <<"2", ".", "5">>, <<"1">>, <<"2", ".", "5">>, <<"x">> >>
    /\ ret.done
    /\ ret.value.outcome = "Success"
    /\ ret.value.values = <<1000000, 2500000, 1000000, 2500000>>

\* C14: for every number of seconds from 0 to 9999 h 59 m 59 s,
\* seconds_to_hms returns h, m, s with h*3600 + m*60 + s equal to the
\* argument, 0 <= m < 60, 0 <= s < 60 and 0 <= h <= 9999.
C14_HmsRoundTrip ==
    (call.fn = "seconds_to_hms" /\ ret.done /\ call.arg <= MaxEncodable) =>
        LET h == ret.value[1]
            m == ret.value[2]
            s == ret.value[3]
        IN /\ h * 3600 + m * 60 + s = call.arg
           /\ 0 <= m /\ m < 60
           /\ 0 <= s /\ s < 60
           /\ 0 <= h /\ h <= MaxHours

C14_Witness ==
    /\ call.fn = "seconds_to_hms"
    /\ call.arg = MaxEncodable
    /\ ret.done
    /\ ret.value = <<9999, 59, 59>>

\* ser.readline() returned bytes that decode() rejects.
Undecodable(ev) ==
    ev.raised = "none" /\ \E i \in 1..Len(ev.bytes) : ev.bytes[i] = BadByte

\* ser.readline() returned no data at the port timeout.
NoData(ev) == ev.raised = "none" /\ ev.bytes = <<>>

\* C21: safe_serial_read reports a read of no data as the timeout outcome
\* (None), and a read of undecodable bytes as an outcome the caller can tell
\* from the timeout outcome and that carries the bytes read.
C21_DecodeFailedIsDistinct ==
    (call.fn = "safe_serial_read" /\ ret.done) =>
        /\ NoData(call.arg) => ret.value = None
        /\ Undecodable(call.arg) =>
              /\ ret.value # None
              /\ \E i \in 1..Len(ret.value) : ret.value[i] = BadByte

\* The positions of the script inside a cycle.
CyclePcs == {"reset", "start", "poll", "poll_read", "fetch_write", "fetch_read"}

C23_InterruptUnwinds ==
    [][/\ (InterruptStep /\ pc \in LoopPcs)
          => (pc' = "cleanup" /\ cyc' = cyc /\ stateHist' = stateHist)
       /\ (interrupted /\ Configured)
          => /\ cyc' = cyc
             /\ stateHist' = stateHist
             /\ loop_count' = loop_count
             /\ pc' \in EndPcs
             /\ (closeAttempted' /\ ~closeAttempted) => stopWrite # "none"
             /\ pc' = "exit" => (closeAttempted' /\ ser' = "closed")
      ]_vars

C23_Witness ==
    /\ interrupted
    /\ pc = "exit"
    /\ cyc.stateQ
    /\ cyc.ended = "none"
    /\ cyc.fetch = "none"
    /\ stopWrite = "ok"
    /\ closeAttempted
    /\ ser = "closed"

\* C24: the polling loop terminates: whatever the writes, the reads and the
\* state responses do, a script that is in the polling loop leaves it, by
\* Complete, by a device-state failure, by the watchdog (or by a user
\* interrupt).
C24_PollingTerminates ==
    (pc \in PollingPcs) ~> ((pc \notin PollingPcs /\ cyc.ended # "none") \/ interrupted)

C24_Witness ==
    /\ pc = "cleanup"
    /\ ~interrupted
    /\ cyc.ended = "Watchdog"
    /\ cyc.outcome = "Timeout"
    /\ stateHist = TooMany

\* C25: responses stay paired with their queries: every line consumed as
\* the answer to a state query or to the numeric query is the instrument's
\* answer to that very query, the last one written.
C25_ResponsesPaired ==
    channel.read.reply = channel.read.query

\* The file holds nothing, or one header followed by data rows only.
HeaderFirstOnce(rows) ==
    rows = <<>> \/ (rows[1] = "header" /\ \A i \in 2..Len(rows) : rows[i] = "row")

\* C15: in both scripts, over the sessions that append to one file: a
\* session that opens the file and gets past the header step has written the
\* header iff the file was empty when it opened it, no other step writes a
\* header, and so the file never holds more than one header and the header
\* is its first row.
C15_HeaderOnce ==
    [][/\ HeaderFirstOnce(csvfile')
       /\ (pc \in {"csv_open", "avg_csv_open"} /\ pc' \in {"loop", "avg_loop"})
          => csvfile' = IF csvfile = <<>> THEN <<"header">> ELSE csvfile
       /\ ~(pc \in {"csv_open", "avg_csv_open"} /\ pc' \in {"loop", "avg_loop"})
          => csvfile' \in {csvfile, Append(csvfile, "row")}
      ]_vars

C15_Witness ==
    /\ session = 2
    /\ pc = "avg_loop"
    /\ cyc.outcome = "Success"
    /\ csvfile = <<"header", "row", "row", "row", "row">>

\* An exception of the channel's write or read-line.
ChannelExceptions == {"SerialTimeoutException", "SerialException", "Exception",
                      "UnicodeDecodeError"}

\* C16: no exception raised by the channel's write or read-line passes the
\* driver to the script: no handler of a measurement loop catches one, each
\* failure reaching the loop as a returned failure outcome.
C16_NoChannelExceptionEscapes ==
    cyc.outcome \notin ChannelExceptions

\* C18: the read-back queries of the configuration are advisory: neither
\* script leaves its configuration block at a read-back query because the
\* write of the query failed or its response was missing or unreadable.
C18_QueriesAdvisory ==
    /\ (pc = "exit" /\ exitCode = "1" /\ cfgStep <= Len(ConfigSteps))
          => ConfigSteps[cfgStep].kind # "query"
    /\ (pc = "avg_exit" /\ cfgFault /\ cfgStep <= Len(AvgConfigSteps))
          => AvgConfigSteps[cfgStep].kind # "query"

\* The row of the scenario after the timestamp: average power 1.0001,
\* energy 0.002778, peak voltage 12.5, current 0.8, instantaneous power 9.2
\* (ten-thousandths, and millionths for the energy).
ScenarioRow == <<10001, 2778, 125000, 8000, 92000>>

ScenarioStates == <<Strip(<<"R","U","N","\n">>), Strip(<<"R","U","N","\n">>),
                    Strip(<<"T","I","M","\n">>)>>

\* C17: with an interval of 10 s and four items, a cycle of the scenario
\* that decodes "12.5,0.8,9.2,0.002778" appends one row to the file, and no
\* other step of a cycle appends one; the row carries energy 0.002778, peak
\* voltage 12.5, current 0.8, instantaneous power 9.2 and the average power
\* 0.002778*3600/10 = 1.00008, written 1.0001, which is 1.0000 to within one
\* unit of the fourth decimal; for an interval of zero the average power is
\* 0.0, and for any other it is energy*3600/interval.
C17_ScenarioRecord ==
    [][/\ (instrument = "scenario" /\ pc = "fetch_read" /\ pc' = "loop"
            /\ cyc'.outcome = "Success")
          => /\ csvfile' = Append(csvfile, "row")
             /\ cyc'.row = ScenarioRow
             /\ cyc'.row[1] - 10000 \in -1..1
       /\ (instrument = "scenario" /\ pc \in LoopPcs \ {"csv_open"}
            /\ ~(pc = "fetch_read" /\ cyc'.outcome = "Success"))
          => csvfile' = csvfile
       /\ (pc = "helper" /\ call.fn = "average_power" /\ ret'.done)
          => IF call.interval = 0 THEN ret'.value = 0
             ELSE /\ ret'.value * call.interval <= call.arg * 3600
                  /\ ret'.value * call.interval > call.arg * 3600 - call.interval
      ]_vars

C17_Witness ==
    /\ instrument = "scenario"
    /\ pc = "loop"
    /\ loop_count = 1
    /\ stateHist = ScenarioStates
    /\ cyc.outcome = "Success"
    /\ cyc.row = ScenarioRow
    /\ csvfile = <<"header", "row">>

Variants == {"Complete", "Running", "StoppedUnexpectedly", "Overflow", "Unrecognized"}

\* The variant the claim gives a text made of these words.
ExpectedVariant(words) ==
    LET has(ws) == \E i \in 1..Len(words) : words[i] \in ws
    IN IF has({<<"t","i","m">>, <<"t","i","m","e","u","p">>}) THEN "Complete"
       ELSE IF has({<<"r","u","n">>, <<"r","u","n","n","i","n","g">>}) THEN "Running"
       ELSE IF has({<<"s","t","o","p">>, <<"r","e","s","e","t">>}) THEN "StoppedUnexpectedly"
       ELSE IF has({<<"o","v","e","r","f","l","o","w">>}) THEN "Overflow"
       ELSE "Unrecognized"

\* C19: every response text is given one of the five variants; the variant
\* is that of the first of TIM, RUN, STOP/RESET, OVERFLOW that occurs in the
\* text in any casing, Unrecognized when none occurs, so that texts which
\* differ in letter case only get the same variant.
C19_ClassifyByFirstToken ==
    (call.fn = "classify" /\ ret.done) =>
        /\ ret.value \in Variants
        /\ ret.value = ExpectedVariant(call.words)

C19_Witness ==
    /\ call.fn = "classify"
    /\ call.arg = <<"S","t","O","p",",","r","U","n">>
    /\ ret.done
    /\ ret.value = "Running"

\* C20: in both scripts a response whose first N fields are numbers or
\* empty, one of them empty, decodes, with 0.0 for each empty field, and
\* gives a row.
C20_EmptyFieldIsZero ==
    (call.fn \in {"decode", "avg_decode"} /\ ret.done) =>
        LET n == ItemCount[call.fn]
            fs == call.fields
            got == ret.value
        IN (/\ Len(fs) >= n
            /\ \A i \in 1..n : fs[i] \in NumericTexts \cup {<<>>}
            /\ \E i \in 1..n : fs[i] = <<>>) =>
                /\ got.outcome = "Success"
                /\ got.values = [i \in 1..n |-> FieldValue(fs[i])]
                /\ got.row # NoRow

====
